---------------------------- MODULE Spec2Model ----------------------------
(***************************************************************************)
(* A model of the WordPress backup/restore tool (src/main.py).             *)
(*                                                                         *)
(* One run of main() is modelled as a sequence of steps, one per blocking  *)
(* call of the program (a subprocess, an archive operation, a check with   *)
(* an early return).  The world the run acts on is explicit: the local     *)
(* file system (key file, archive file, temporary directory), the remote   *)
(* file tree and database, and the two processes of the import pipe.       *)
(*                                                                         *)
(* Paths are sequences of components, file contents are sequences of       *)
(* lines, and a line is a sequence of tokens.                              *)
(***************************************************************************)
EXTENDS Integers, Sequences, FiniteSets, TLC

VARIABLES
    args,           \* the parsed command line (argparse namespace)
    keyFile,        \* the file at args.ssh_key: [exists, perms]
    archive,        \* the file at args.input_file / args.output_file
    localFs,        \* local temporary storage: [dirs, files]
    temp_dir,       \* the path TemporaryDirectory() returned, or NoPath
    remoteFs,       \* the tree under args.wp_path on the server: [dirs, files]
    remoteDb,       \* the tables of the remote database
    db_credentials, \* the local variable db_credentials, or Unset
    db_file,        \* the local variable db_file of restore_site, or NoPath
    drop_tables_result, \* the local variable drop_tables_result: the exit
                    \* status and stdout of the table enumeration
    cat_process,    \* the feeding process of the import pipe
    ssh_process,    \* the remote-session process of the import pipe
    pipe,           \* the pipe between them
    pc,             \* the position of the run
    outcome,        \* how backup_site / restore_site ended
    exitCode,       \* the exit code of the python process, NoExit while running
    origin,         \* history: the working area the archive was packed from
    initial,        \* history: the server as the run found it
    log             \* history: the external operations and messages, in order

vars == <<args, keyFile, archive, localFs, temp_dir, remoteFs, remoteDb,
          db_credentials, db_file, drop_tables_result, cat_process,
          ssh_process, pipe, pc, outcome, exitCode, origin, initial,
          log>>

---------------------------------------------------------------------------
(* Bounds of the model *)

\* longest relative path of a generated file below files/
MaxDepth == 2
\* most files below files/ in a generated working area
MaxFiles == 2
\* number of chunks the dump file is fed through the pipe in
DumpChunks == 2
\* capacity of the pipe, in chunks
PipeCap == 1

---------------------------------------------------------------------------
(* Values *)

\* Python's None, a value no string of the model equals
None == "<None>"
\* a value formatted into an f-string
Str(v) == IF v = None THEN "None" ELSE v
NoPath == <<>>
NoExit == -1
\* returncode of a process killed by SIGPIPE (subprocess reports -signal)
SigPipe == -13

\* the permission bits main() wants on the key file (0o600)
WantPerms == 384
\* another mode a key file may have (0o644)
OtherPerms == 420

---------------------------------------------------------------------------
(* Paths and trees *)

IsPrefix(p, q) == Len(p) <= Len(q) /\ SubSeq(q, 1, Len(p)) = p

\* os.path.join(base, rel)
Join(base, rel) == base \o rel

\* os.path.relpath(p, base), for p below base
RelPath(p, base) == SubSeq(p, Len(base) + 1, Len(p))

\* the directories a path lies in, relative to the root of its tree
ParentDirs(p) == { SubSeq(p, 1, k) : k \in 1..(Len(p) - 1) }

EmptyTree == [dirs |-> {}, files |-> <<>>]

\* os.path.exists(p)
Exists(fs, p) == p \in fs.dirs \/ p \in DOMAIN fs.files

\* the files os.walk(top) yields, top and subdirectories included
Walk(fs, top) ==
    IF top \in fs.dirs
    THEN { p \in DOMAIN fs.files : IsPrefix(top, p) /\ p # top }
    ELSE {}

\* the tree below base, with paths relative to base
SubTree(fs, base) ==
    LET fset == { p \in DOMAIN fs.files : IsPrefix(base, p) /\ p # base }
        dset == { d \in fs.dirs : IsPrefix(base, d) /\ d # base }
    IN [dirs  |-> { RelPath(d, base) : d \in dset },
        files |-> [ r \in { RelPath(p, base) : p \in fset } |->
                        fs.files[Join(base, r)] ]]

\* fs without anything at or below base (shutil.rmtree)
RemoveTree(fs, base) ==
    [dirs  |-> { d \in fs.dirs : ~IsPrefix(base, d) },
     files |-> [ p \in { q \in DOMAIN fs.files : ~IsPrefix(base, q) } |->
                     fs.files[p] ]]

\* fs with the tree t placed at base, replacing what was below base
PlaceTree(fs, base, t) ==
    LET kept == RemoveTree(fs, base)
        newf == { Join(base, r) : r \in DOMAIN t.files }
    IN [dirs  |-> kept.dirs \cup {base} \cup { Join(base, d) : d \in t.dirs },
        files |-> [ p \in DOMAIN kept.files \cup newf |->
                      IF p \in newf THEN t.files[RelPath(p, base)]
                      ELSE kept.files[p] ]]

\* fs with the file p holding content c (open(p, 'w') and a write)
WriteFile(fs, p, c) ==
    [dirs  |-> fs.dirs,
     files |-> [ q \in DOMAIN fs.files \cup {p} |->
                   IF q = p THEN c ELSE fs.files[q] ]]

\* os.makedirs(p, exist_ok=True)
MakeDirs(fs, p) ==
    [dirs |-> fs.dirs \cup {p} \cup ParentDirs(p), files |-> fs.files]

---------------------------------------------------------------------------
(* Parsing of the configuration file.  A line is a sequence of tokens: the *)
(* text "define(", a quote character, a blank, a marker, a comma, a        *)
(* closing parenthesis, or any other piece of text.                        *)

Tok(line, i) == IF i \in 1..Len(line) THEN line[i] ELSE ""

\* ['\"]
IsQuote(t) == t \in {"'", "\""}

\* \s
IsSpace(t) == t = " "

\* 'DB_NAME' in line
HasTok(line, t) == \E i \in 1..Len(line) : line[i] = t

RECURSIVE SkipSpaces(_, _)
\* the position after \s* matched from position i
SkipSpaces(line, i) ==
    IF IsSpace(Tok(line, i)) THEN SkipSpaces(line, i + 1) ELSE i

RECURSIVE NextQuote(_, _)
\* the position after [^'\"]* matched from position i
NextQuote(line, i) ==
    IF i > Len(line) \/ IsQuote(line[i]) THEN i ELSE NextQuote(line, i + 1)

RECURSIVE Concat(_)
\* the text of a sequence of tokens
Concat(toks) ==
    IF toks = <<>> THEN "" ELSE Head(toks) \o Concat(Tail(toks))

NoMatch == [ok |-> FALSE, val |-> None]

\* ([^'\"]+)['\"] from the opening quote at m to the closing quote at e,
\* followed by \) when closeParen is required
MatchValueTo(line, m, e, closeParen) ==
    IF /\ IsQuote(Tok(line, m))
       /\ e > m + 1
       /\ e <= Len(line)
       /\ (closeParen => Tok(line, e + 1) = ")")
    THEN [ok |-> TRUE, val |-> Concat(SubSeq(line, m + 1, e - 1))]
    ELSE NoMatch

\* ['\"]([^'\"]+)['\"] at position m
MatchValue(line, m, closeParen) ==
    MatchValueTo(line, m, NextQuote(line, m + 1), closeParen)

\* ,\s*['\"]([^'\"]+)['\"] at position k
MatchComma(line, k, closeParen) ==
    IF Tok(line, k) = ","
    THEN MatchValue(line, SkipSpaces(line, k + 1), closeParen)
    ELSE NoMatch

\* ['\"](MARKER)['\"]\s*,\s*['\"]([^'\"]+)['\"] at position j
MatchName(line, j, marker, closeParen) ==
    IF /\ IsQuote(Tok(line, j))
       /\ Tok(line, j + 1) = marker
       /\ IsQuote(Tok(line, j + 2))
    THEN MatchComma(line, SkipSpaces(line, j + 3), closeParen)
    ELSE NoMatch

\* define\(\s*['\"](MARKER)['\"]\s*,\s*['\"]([^'\"]+)['\"]  matched at
\* position i, followed by \) when closeParen is required
MatchAt(line, i, marker, closeParen) ==
    IF Tok(line, i) = "define("
    THEN MatchName(line, SkipSpaces(line, i + 1), marker, closeParen)
    ELSE NoMatch

\* the match at the leftmost of the positions at
MatchLeftmost(line, at, marker, closeParen) ==
    IF at = {} THEN NoMatch
    ELSE MatchAt(line, CHOOSE i \in at : \A o \in at : i <= o,
                 marker, closeParen)

\* re.search: the leftmost position where the pattern matches
ReSearch(line, marker, closeParen) ==
    MatchLeftmost(line,
                  { i \in 1..Len(line) : MatchAt(line, i, marker, closeParen).ok },
                  marker, closeParen)

\* db_credentials before any line is parsed
InitialCredentials ==
    [db_name |-> None, db_user |-> None, db_password |-> None,
     db_host |-> "localhost"]

\* if match: db_credentials[field] = match.group(...)
SetField(creds, field, match) ==
    IF match.ok THEN [creds EXCEPT ![field] = match.val] ELSE creds

\* one turn of the parsing loop: the if/elif chain over the four markers
ParseLine(creds, line, closeParen) ==
    IF HasTok(line, "DB_NAME")
    THEN SetField(creds, "db_name", ReSearch(line, "DB_NAME", closeParen))
    ELSE IF HasTok(line, "DB_USER")
    THEN SetField(creds, "db_user", ReSearch(line, "DB_USER", closeParen))
    ELSE IF HasTok(line, "DB_PASSWORD")
    THEN SetField(creds, "db_password", ReSearch(line, "DB_PASSWORD", closeParen))
    ELSE IF HasTok(line, "DB_HOST")
    THEN SetField(creds, "db_host", ReSearch(line, "DB_HOST", closeParen))
    ELSE creds

RECURSIVE ParseLines(_, _, _)
ParseLines(creds, lines, closeParen) ==
    IF lines = <<>> THEN creds
    ELSE ParseLines(ParseLine(creds, Head(lines), closeParen), Tail(lines),
                    closeParen)

\* missing = [k for k, v in db_credentials.items() if v is None]
Missing(creds) == { k \in DOMAIN creds : creds[k] = None }

\* grep -E "DB_NAME|DB_USER|DB_PASSWORD|DB_HOST": the lines holding a marker
GrepLines(lines) ==
    SelectSeq(lines, LAMBDA l : \/ HasTok(l, "DB_NAME") \/ HasTok(l, "DB_USER")
                                \/ HasTok(l, "DB_PASSWORD") \/ HasTok(l, "DB_HOST"))

\* lines 65-70: [ok, creds], ok = FALSE for the ValueError raised when a
\* credential is missing
Checked(creds) == [ok |-> Missing(creds) = {}, creds |-> creds]

\* the parsing part of extract_db_credentials_from_wpconfig, given the
\* stdout of the remote grep
ParseRemote(lines) == Checked(ParseLines(InitialCredentials, lines, FALSE))

\* extract_db_credentials_from_local_wpconfig on a file's lines
extract_db_credentials_from_local_wpconfig(lines) ==
    Checked(ParseLines(InitialCredentials, lines, TRUE))

\* stdout of the remote grep over wp-config.php, empty when the file is absent
RemoteGrep(rfs) ==
    IF <<"wp-config.php">> \in DOMAIN rfs.files
    THEN GrepLines(rfs.files[<<"wp-config.php">>]) ELSE <<>>

\* lines 34-36 and 72-76: grep exits nonzero when the file is absent or no
\* line matches, ssh when the server is not reachable; check=True turns that
\* into ValueError
ParseGrepped(canReach, stdout) ==
    IF ~canReach \/ stdout = <<>>
    THEN [ok |-> FALSE, creds |-> InitialCredentials]
    ELSE ParseRemote(stdout)

\* extract_db_credentials_from_wpconfig: the remote grep, then the parsing
extract_db_credentials_from_wpconfig(rfs, canReach) ==
    ParseGrepped(canReach, RemoteGrep(rfs))

---------------------------------------------------------------------------
(* The working area and the archive *)

\* os.path.join(temp_dir, "files") and os.path.join(temp_dir, "database")
FilesDir(td) == Join(td, <<"files">>)
DbDir(td) == Join(td, <<"database">>)

\* f.endswith(suffix)
EndsWith(name, suffix) ==
    /\ Len(name) >= Len(suffix)
    /\ SubSeq(name, Len(name) - Len(suffix) + 1, Len(name)) = suffix

\* os.listdir(dir): the names of the entries directly in dir
ListDir(fs, dir) ==
    { p[Len(dir) + 1] : p \in { q \in fs.dirs \cup DOMAIN fs.files :
                                  IsPrefix(dir, q) /\ Len(q) > Len(dir) } }

NoArchive == [exists |-> FALSE, valid |-> FALSE, dirs |-> {}, files |-> <<>>]

\* variant: files of length zero are left out of the archive
PackedNonEmpty(fs, td) ==
    { p \in Walk(fs, DbDir(td)) \cup Walk(fs, FilesDir(td)) : fs.files[p] # <<>> }

\* the files the two loops over os.walk(db_dir) and os.walk(files_dir) write
Packed(fs, td) == Walk(fs, DbDir(td)) \cup Walk(fs, FilesDir(td))

\* variant: arcname = os.path.basename(file_path)
ArcNameBase(file_path, td) == <<file_path[Len(file_path)]>>

\* arcname = os.path.relpath(file_path, temp_dir)
ArcName(file_path, td) == RelPath(file_path, td)

\* the archive the two os.walk loops of backup_site write
PackArchive(fs, td) ==
    LET walked == Packed(fs, td)
        names  == { ArcName(p, td) : p \in walked }
    IN [exists |-> TRUE, valid |-> TRUE, dirs |-> {},
        files  |-> [ a \in names |->
                       fs.files[CHOOSE p \in walked : ArcName(p, td) = a] ]]

\* where zipf.extractall(temp_dir) puts the entry named a
ExtractPath(td, a) == Join(td, a)

\* the file system after zipf.extractall(temp_dir)
ExtractAll(fs, ar, td) ==
    LET newf == { ExtractPath(td, a) : a \in DOMAIN ar.files }
        newd == { ExtractPath(td, d) : d \in ar.dirs }
        made == UNION { ParentDirs(p) \cup {p} : p \in newd }
                  \cup UNION { ParentDirs(p) : p \in newf }
    IN [dirs  |-> fs.dirs \cup { d \in made : IsPrefix(td, d) },
        files |-> [ p \in DOMAIN fs.files \cup newf |->
                      IF p \in newf
                      THEN ar.files[CHOOSE a \in DOMAIN ar.files :
                                        ExtractPath(td, a) = p]
                      ELSE fs.files[p] ]]

\* tempfile.TemporaryDirectory(): a fresh directory below /tmp
MkTemp(fs, td) == [dirs |-> fs.dirs \cup {td}, files |-> fs.files]

\* variant: the directory is left behind (mkdtemp without removal)
CleanupSkipped(fs, td) == fs

\* leaving the with block of TemporaryDirectory: the directory is removed
Cleanup(fs, td) == IF td = NoPath THEN fs ELSE RemoveTree(fs, td)

---------------------------------------------------------------------------
(* The directory mirroring tool *)

\* rsync -avz src/ dst/, with --delete when delete: the destination tree
RsyncTree(src, dst, delete) ==
    IF delete THEN src
    ELSE [dirs  |-> dst.dirs \cup src.dirs,
          files |-> [ p \in DOMAIN dst.files \cup DOMAIN src.files |->
                        IF p \in DOMAIN src.files THEN src.files[p]
                        ELSE dst.files[p] ]]

\* the rsync command line as the history records it
RsyncOp(direction, delete) ==
    "rsync_" \o direction \o (IF delete THEN "_delete" ELSE "")

\* backup_site's rsync command carries no --delete
BackupSyncDeletes == FALSE

\* variant: restore_site's rsync command without --delete
RestoreSyncKeeps == FALSE

\* restore_site's rsync command carries --delete
RestoreSyncDeletes == TRUE

---------------------------------------------------------------------------
(* The remote database: the sequence of its table names *)

\* the output of mysqldump
DumpOf(db) == [ i \in 1..Len(db) |-> <<"CREATE TABLE ", db[i]>> ]

\* the tables a dump creates
TablesOf(dump) ==
    { l[2] : l \in { dump[i] : i \in { j \in 1..Len(dump) :
                                        Tok(dump[j], 1) = "CREATE TABLE " } } }

\* stdout of SHOW TABLES | grep -v Tables_in | xargs -I{} echo "DROP ...;"
DropStatements(db) ==
    [ i \in 1..Len(db) |-> <<"DROP TABLE IF EXISTS ", db[i], ";">> ]

\* the database after mysql -e "<sql>"
AfterDrop(db, sql) ==
    SelectSeq(db, LAMBDA t : \A i \in 1..Len(sql) : sql[i][2] # t)

\* the database after mysql has read the whole dump
AfterImport(db, dump) ==
    LET created == { i \in 1..Len(dump) : Tok(dump[i], 1) = "CREATE TABLE " }
    IN SelectSeq(db, LAMBDA t : t \notin TablesOf(dump))
         \o [ i \in 1..Cardinality(created) |->
                dump[CHOOSE j \in created :
                       Cardinality({ k \in created : k <= j }) = i][2] ]

---------------------------------------------------------------------------
(* The inputs a run is started on *)

\* a file of one line of plain text
Text(t) == << <<t>> >>

\* define('MARKER', 'value'); written with the quote character q
DefineLine(q, marker, value) ==
    <<"define(", q, marker, q, ",", " ", q, value, q, ")", ";">>

\* a wp-config.php: name and user, the password and the host when given
WpConfig(q, name, password, host) ==
    << <<"<?php">>, DefineLine(q, "DB_NAME", name),
       DefineLine(q, "DB_USER", "admin") >>
      \o (IF password = None THEN <<>>
          ELSE << DefineLine(q, "DB_PASSWORD", password) >>)
      \o (IF host = None THEN <<>> ELSE << DefineLine(q, "DB_HOST", host) >>)
      \o << <<"$table_prefix", " ", "=", " ", "'", "wp_", "'", ";">> >>

\* the tree holding the given files, their directories and some empty ones
MkTree(files, emptyDirs) ==
    [dirs  |-> emptyDirs \cup UNION { ParentDirs(p) : p \in DOMAIN files },
     files |-> files]

MkArchive(files, dirEntries) ==
    [exists |-> TRUE, valid |-> TRUE, dirs |-> dirEntries, files |-> files]

\* a live site, configuration in single quotes, host not set
LiveSite ==
    MkTree((<<"wp-config.php">> :> WpConfig("'", "wp", "secret", None))
             @@ (<<"index.php">> :> Text("index"))
             @@ (<<"wp-content", "a.png">> :> Text("png")),
           {<<"cache">>})

RemoteTrees ==
    { LiveSite,
      \* a live site, configuration in double quotes, host set
      MkTree((<<"wp-config.php">> :> WpConfig("\"", "wp", "secret", "dbhost"))
               @@ (<<"stale.php">> :> Text("stale")), {}),
      \* a configuration without a password
      MkTree(<<"wp-config.php">> :> WpConfig("'", "wp", None, None), {}),
      \* nothing yet
      EmptyTree }

RemoteDbs == { <<>>, <<"wp_posts", "wp_users">> }

WpDump == DumpOf(<<"wp_posts", "wp_options">>)

\* a backup of the site "wp"
SiteArchive ==
    MkArchive((<<"files", "wp-config.php">> :> WpConfig("'", "wp", "secret", None))
                @@ (<<"files", "index.php">> :> Text("index"))
                @@ (<<"files", "wp-content", "a.png">> :> Text("png"))
                @@ (<<"database", "wp.sql">> :> WpDump), {})

InputArchives ==
    { \* no file at args.input_file
      NoArchive,
      \* a file that is no zip archive
      [exists |-> TRUE, valid |-> FALSE, dirs |-> {}, files |-> <<>>],
      SiteArchive,
      \* a backup of a site whose database had another name
      MkArchive((<<"files", "wp-config.php">> :> WpConfig("\"", "old", "secret", "dbhost"))
                  @@ (<<"database", "old.sql">> :> WpDump), {}),
      \* no files/ subtree
      MkArchive(<<"database", "wp.sql">> :> WpDump, {}),
      \* no configuration, two dumps
      MkArchive((<<"files", "index.php">> :> Text("index"))
                  @@ (<<"database", "a.sql">> :> WpDump)
                  @@ (<<"database", "b.sql">> :> DumpOf(<<"b_posts">>)), {}),
      \* no dump
      MkArchive((<<"files", "wp-config.php">> :> WpConfig("'", "wp", "secret", None))
                  @@ (<<"database", "notes.txt">> :> Text("notes")), {}),
      \* a configuration without a password
      MkArchive((<<"files", "wp-config.php">> :> WpConfig("'", "wp", None, None))
                  @@ (<<"database", "wp.sql">> :> WpDump), {}),
      \* an empty files/ directory
      MkArchive(<<"database", "wp.sql">> :> WpDump, {<<"files">>}) }

\* --db-name, --db-user, --db-password, --db-host as given on the command line
SuppliedCredentials ==
    { [db_name |-> None, db_user |-> None, db_password |-> None, db_host |-> None],
      [db_name |-> "other", db_user |-> "u", db_password |-> "p", db_host |-> None],
      [db_name |-> "other", db_user |-> "u", db_password |-> "p", db_host |-> "dbhost2"],
      [db_name |-> None, db_user |-> "u", db_password |-> "p", db_host |-> None] }

\* the command lines: the database flags are varied in full with
\* --db-credentials-override on a restore, the one place they are read
ArgSets ==
    { a \in [action : {"backup", "restore"},
             db_credentials_override : BOOLEAN,
             supplied : SuppliedCredentials] :
        (a.action = "backup" \/ ~a.db_credentials_override)
            => a.supplied.db_name = a.supplied.db_user }

KeyFiles ==
    { [exists |-> FALSE, perms |-> 0],
      [exists |-> TRUE, perms |-> WantPerms],
      [exists |-> TRUE, perms |-> OtherPerms] }

\* the names TemporaryDirectory() may pick
TempNames == {"tmpA", "tmpB"}

Unset == [db_name |-> None, db_user |-> None, db_password |-> None,
          db_host |-> None]

NoProcess == [state |-> "none", rc |-> NoExit, left |-> 0, got |-> 0,
              src |-> <<>>]

NoOrigin == [td |-> NoPath, tree |-> EmptyTree]

\* drop_tables_result before the enumeration has run
NoResult == [returncode |-> NoExit, stdout |-> <<>>]

NoPipe == [data |-> 0, parentRead |-> FALSE, childRead |-> FALSE,
           writeOpen |-> FALSE]

---------------------------------------------------------------------------
(* The run *)

Init ==
    /\ args \in ArgSets
    /\ keyFile \in KeyFiles
    /\ archive \in (IF args.action = "restore" THEN InputArchives ELSE {NoArchive})
    /\ localFs = [dirs |-> {<<"tmp">>}, files |-> <<>>]
    /\ temp_dir = NoPath
    /\ remoteFs \in RemoteTrees
    /\ remoteDb \in RemoteDbs
    /\ db_credentials = Unset
    /\ db_file = NoPath
    /\ drop_tables_result = NoResult
    /\ cat_process = NoProcess
    /\ ssh_process = NoProcess
    /\ pipe = NoPipe
    /\ pc = "main"
    /\ outcome = "none"
    /\ exitCode = NoExit
    /\ origin = NoOrigin
    /\ initial = [remoteFs |-> remoteFs, remoteDb |-> remoteDb,
                  keyFile |-> keyFile]
    /\ log = <<>>

\* an entry of the history: an external operation or a message, the exit
\* status it ended with, and the credentials a database command carried
Ev(op, rc) == [op |-> op, rc |-> rc, creds |-> Unset]
DbEv(op, rc, creds) == [op |-> op, rc |-> rc, creds |-> creds]

\* the run ends: what the action function returned or raised, and the exit
\* code sys.exit(main()) gives the process (1 for an uncaught exception)
End(result) ==
    /\ pc' = "done"
    /\ outcome' = result
    /\ exitCode' = IF result = "True" THEN 0 ELSE 1

\* subprocess.run(..., check=check): CalledProcessError is raised when check
\* is set and the command exits nonzero
Raises(check, rc) == check /\ rc # 0

\* line 143: mysqldump is run with check=True
DumpCheck == TRUE

\* variant: backup_site's rsync run with check=False
BackupSyncUnchecked == FALSE

\* line 154: backup_site's rsync is run with check=True
BackupSyncCheck == TRUE

\* variant: restore_site's rsync run with check=False
RestoreSyncUnchecked == FALSE

\* line 230: restore_site's rsync is run with check=True
RestoreSyncCheck == TRUE

\* variant: the drop command run with check=False
DropUnchecked == FALSE

\* line 270: the drop command is run with check=True
DropCheck == TRUE

\* variant: the permissions are left as they are found
KeyPermsUnchanged(current_perms) == current_perms

\* lines 325-328: the permission bits of the key file after the check
KeyPermsAfterCheck(current_perms) ==
    IF current_perms # WantPerms THEN WantPerms ELSE current_perms

\* main(), lines 323-331: the key file check
KeyCheck ==
    /\ pc = "main"
    /\ IF keyFile.exists
       THEN /\ keyFile' = [keyFile EXCEPT !.perms = KeyPermsAfterCheck(@)]
            /\ pc' = IF args.action = "backup" THEN "b_creds" ELSE "r_exists"
            /\ UNCHANGED <<outcome, exitCode, log>>
       ELSE /\ log' = Append(log, Ev("print_key_not_found", 0))
            /\ pc' = "done"
            /\ exitCode' = 1
            /\ UNCHANGED <<keyFile, outcome>>
    /\ UNCHANGED <<initial, origin, args, archive, localFs, temp_dir, remoteFs,
                   remoteDb, db_credentials, db_file, drop_tables_result, cat_process,
                   ssh_process, pipe>>

---------------------------------------------------------------------------
(* backup_site *)

\* lines 117-120: the credentials, from the server only
BackupCredentials ==
    /\ pc = "b_creds"
    /\ \E canReach \in BOOLEAN :
         \E r \in { extract_db_credentials_from_wpconfig(remoteFs, canReach) } :
            IF r.ok
            THEN /\ db_credentials' = r.creds
                 /\ log' = Append(log, Ev("ssh_grep_config", 0))
                 /\ pc' = "b_mktemp"
                 /\ UNCHANGED <<outcome, exitCode>>
            ELSE /\ log' = Append(log, Ev("ssh_grep_config", 1))
                 /\ End("exception")
                 /\ UNCHANGED db_credentials
    /\ UNCHANGED <<initial, origin, args, keyFile, archive, localFs, temp_dir, remoteFs,
                   remoteDb, db_file, drop_tables_result, cat_process, ssh_process, pipe>>

\* lines 123-128: the temporary directory and its two subdirectories
BackupMkTemp ==
    /\ pc = "b_mktemp"
    /\ \E name \in TempNames :
         LET td == <<"tmp", name>>
         IN /\ temp_dir' = td
            /\ localFs' = MakeDirs(MakeDirs(MkTemp(localFs, td), FilesDir(td)),
                                   DbDir(td))
    /\ pc' = "b_dump"
    /\ UNCHANGED <<initial, origin, args, keyFile, archive, remoteFs, remoteDb, db_credentials,
                   db_file, drop_tables_result, cat_process, ssh_process, pipe, outcome,
                   exitCode, log>>

\* lines 130-143: mysqldump over ssh, written to database/<db_name>.sql
BackupDump ==
    /\ pc = "b_dump"
    /\ \E rc \in {0, 1} :
         LET file == Join(DbDir(temp_dir),
                          <<Str(db_credentials.db_name) \o ".sql">>)
             written == WriteFile(localFs, file,
                                  IF rc = 0 THEN DumpOf(remoteDb) ELSE <<>>)
         IN /\ log' = Append(log, DbEv("mysqldump", rc, db_credentials))
            /\ IF Raises(DumpCheck, rc)
               THEN /\ localFs' = Cleanup(written, temp_dir)
                    /\ End("exception")
               ELSE /\ localFs' = written
                    /\ pc' = "b_rsync"
                    /\ UNCHANGED <<outcome, exitCode>>
    /\ UNCHANGED <<initial, origin, args, keyFile, archive, temp_dir, remoteFs, remoteDb,
                   db_credentials, db_file, drop_tables_result, cat_process,
                   ssh_process, pipe>>

\* lines 145-154: rsync from the server into files/
BackupSync ==
    /\ pc = "b_rsync"
    /\ \E rc \in {0, 1} :
         LET fd == FilesDir(temp_dir)
             synced == PlaceTree(localFs, fd,
                                 RsyncTree(remoteFs, SubTree(localFs, fd),
                                           BackupSyncDeletes))
         IN /\ log' = Append(log, Ev(RsyncOp("pull", BackupSyncDeletes), rc))
            /\ IF Raises(BackupSyncCheck, rc)
               THEN /\ localFs' = Cleanup(localFs, temp_dir)
                    /\ End("exception")
               ELSE /\ localFs' = IF rc = 0 THEN synced ELSE localFs
                    /\ pc' = "b_zip"
                    /\ UNCHANGED <<outcome, exitCode>>
    /\ UNCHANGED <<initial, origin, args, keyFile, archive, temp_dir, remoteFs, remoteDb,
                   db_credentials, db_file, drop_tables_result, cat_process,
                   ssh_process, pipe>>

\* lines 156-174: the archive is written, the temporary directory removed,
\* the path printed; writing may fail (OSError)
BackupPack ==
    /\ pc = "b_zip"
    /\ \E written \in BOOLEAN :
         IF written
         THEN /\ archive' = PackArchive(localFs, temp_dir)
              /\ log' = log \o << Ev("zip_write", 0),
                                  Ev("print_backup_complete", 0) >>
              /\ End("True")
         ELSE /\ archive' = [NoArchive EXCEPT !.exists = TRUE]
              /\ log' = Append(log, Ev("zip_write", 1))
              /\ End("exception")
    /\ localFs' = Cleanup(localFs, temp_dir)
    /\ origin' = [td |-> temp_dir, tree |-> SubTree(localFs, temp_dir)]
    /\ UNCHANGED <<initial, args, keyFile, temp_dir, remoteFs, remoteDb,
                   db_credentials, db_file, drop_tables_result, cat_process,
                   ssh_process, pipe>>

---------------------------------------------------------------------------
(* restore_site *)

\* lines 181-183: the archive must exist
RestoreExists ==
    /\ pc = "r_exists"
    /\ IF archive.exists
       THEN /\ pc' = "r_extract"
            /\ UNCHANGED <<outcome, exitCode, log>>
       ELSE /\ log' = Append(log, Ev("print_no_archive", 0))
            /\ End("False")
    /\ UNCHANGED <<initial, origin, args, keyFile, archive, localFs, temp_dir, remoteFs,
                   remoteDb, db_credentials, db_file, drop_tables_result, cat_process,
                   ssh_process, pipe>>

\* lines 186-190: the temporary directory, and the archive extracted into it
\* (zipfile.BadZipFile when the file is no archive)
RestoreExtract ==
    /\ pc = "r_extract"
    /\ \E name \in TempNames :
         LET td == <<"tmp", name>>
         IN /\ temp_dir' = td
            /\ IF archive.valid
               THEN /\ localFs' = ExtractAll(MkTemp(localFs, td), archive, td)
                    /\ log' = Append(log, Ev("extract", 0))
                    /\ pc' = "r_creds"
                    /\ UNCHANGED <<outcome, exitCode>>
               ELSE /\ localFs' = Cleanup(MkTemp(localFs, td), td)
                    /\ log' = Append(log, Ev("extract", 1))
                    /\ End("exception")
    /\ UNCHANGED <<initial, origin, args, keyFile, archive, remoteFs, remoteDb, db_credentials,
                   db_file, drop_tables_result, cat_process, ssh_process, pipe>>

\* lines 208-213: the dictionary built from the command line
OverrideCredentials(supplied) ==
    [db_name |-> supplied.db_name,
     db_user |-> supplied.db_user,
     db_password |-> supplied.db_password,
     db_host |-> IF supplied.db_host = None THEN "localhost"
                 ELSE supplied.db_host]

\* variant: the archive's configuration is preferred to the server's
RestoreResolutionLocalFirst(remote, override, hasLocal, local, supplied) ==
    IF hasLocal /\ ~override
    THEN [how |-> "local", ok |-> local.ok, creds |-> local.creds]
    ELSE IF remote.ok
    THEN [how |-> "remote", ok |-> TRUE, creds |-> remote.creds]
    ELSE IF ~override
    THEN [how |-> "none", ok |-> FALSE, creds |-> Unset]
    ELSE [how |-> "override", ok |-> TRUE,
          creds |-> OverrideCredentials(supplied)]

\* lines 193-213: which credentials restore_site ends up with, given the
\* result of the remote lookup, the override flag, whether the archive holds
\* files/wp-config.php and what parsing it gives.  how: where they come from;
\* ok = FALSE: no credentials (the return False of line 206, or ValueError)
RestoreResolution(remote, override, hasLocal, local, supplied) ==
    IF remote.ok
    THEN [how |-> "remote", ok |-> TRUE, creds |-> remote.creds]
    ELSE IF ~override
    THEN IF hasLocal
         THEN [how |-> "local", ok |-> local.ok, creds |-> local.creds]
         ELSE [how |-> "none", ok |-> FALSE, creds |-> Unset]
    ELSE [how |-> "override", ok |-> TRUE,
          creds |-> OverrideCredentials(supplied)]

\* "files/wp-config.php" below the temporary directory (line 200)
LocalConfig == <<"files", "wp-config.php">>

\* what parsing the archive's files/wp-config.php gives (line 203)
LocalCredentials(fs, td) ==
    extract_db_credentials_from_local_wpconfig(
        IF Join(td, LocalConfig) \in DOMAIN fs.files
        THEN fs.files[Join(td, LocalConfig)] ELSE <<>>)

\* the history after the resolution: the remote lookup, then the reading of
\* the local file or the message that there is none
ResolutionLog(before, remoteOk, r) ==
    Append(before, Ev("ssh_grep_config", IF remoteOk THEN 0 ELSE 1))
      \o (IF r.how = "local"
          THEN << Ev("read_local_config", IF r.ok THEN 0 ELSE 1) >>
          ELSE IF r.how = "none"
          THEN << Ev("print_no_credentials", 0) >>
          ELSE <<>>)

\* lines 192-213: the credentials: from the server; when that raises
\* ValueError, from files/wp-config.php of the archive or, with
\* --db-credentials-override, from the command line
RestoreCredentials ==
    /\ pc = "r_creds"
    /\ \E canReach \in BOOLEAN :
       \E remote \in { extract_db_credentials_from_wpconfig(remoteFs, canReach) } :
       \E r \in { RestoreResolution(remote, args.db_credentials_override,
                                    Exists(localFs, Join(temp_dir, LocalConfig)),
                                    LocalCredentials(localFs, temp_dir),
                                    args.supplied) } :
         /\ log' = ResolutionLog(log, remote.ok, r)
         /\ IF r.ok
            THEN /\ db_credentials' = r.creds
                 /\ pc' = "r_files"
                 /\ UNCHANGED <<localFs, outcome, exitCode>>
            ELSE /\ localFs' = Cleanup(localFs, temp_dir)
                 /\ End(IF r.how = "none" THEN "False" ELSE "exception")
                 /\ UNCHANGED db_credentials
    /\ UNCHANGED <<initial, origin, args, keyFile, archive, temp_dir, remoteFs,
                   remoteDb, db_file, drop_tables_result, cat_process, ssh_process, pipe>>

\* lines 215-230: files/ must exist; rsync --delete from it to the server
RestoreSync ==
    /\ pc = "r_files"
    /\ LET files_dir == FilesDir(temp_dir)
       IN IF ~Exists(localFs, files_dir)
          THEN /\ log' = Append(log, Ev("print_no_files_dir", 0))
               /\ localFs' = Cleanup(localFs, temp_dir)
               /\ End("False")
               /\ UNCHANGED remoteFs
          ELSE \E rc \in {0, 1} :
                 /\ log' = Append(log, Ev(RsyncOp("push", RestoreSyncDeletes), rc))
                 /\ IF Raises(RestoreSyncCheck, rc)
                    THEN /\ localFs' = Cleanup(localFs, temp_dir)
                         /\ End("exception")
                         /\ UNCHANGED remoteFs
                    ELSE /\ remoteFs' =
                              IF rc = 0
                              THEN RsyncTree(SubTree(localFs, files_dir),
                                             remoteFs, RestoreSyncDeletes)
                              ELSE remoteFs
                         /\ pc' = "r_locate"
                         /\ UNCHANGED <<localFs, outcome, exitCode>>
    /\ UNCHANGED <<initial, origin, args, keyFile, archive, temp_dir, remoteDb, db_credentials,
                   db_file, drop_tables_result, cat_process, ssh_process, pipe>>

\* variant: no fallback to another .sql file
DumpCandidatesExactOnly(fs, td, db_name) ==
    { Join(DbDir(td), <<Str(db_name) \o ".sql">>) }

\* lines 236-244: the dump files the lookup may select: database/<db_name>.sql
\* when it exists, else any entry of database/ whose name ends in .sql
\* (sql_files[0], in the order os.listdir happens to give), else the path that
\* does not exist
DumpCandidates(fs, td, db_name) ==
    LET exact == Join(DbDir(td), <<Str(db_name) \o ".sql">>)
        sql_files == { f \in ListDir(fs, DbDir(td)) : EndsWith(f, ".sql") }
    IN IF Exists(fs, exact) THEN {exact}
       ELSE IF Exists(fs, DbDir(td)) /\ sql_files # {}
       THEN { Join(DbDir(td), <<f>>) : f \in sql_files }
       ELSE {exact}

\* lines 232-248: the dump file is located, or the restore fails
RestoreLocate ==
    /\ pc = "r_locate"
    /\ \E file \in DumpCandidates(localFs, temp_dir, db_credentials.db_name) :
         IF Exists(localFs, file)
         THEN /\ db_file' = file
              /\ pc' = "r_enum"
              /\ UNCHANGED <<localFs, outcome, exitCode, log>>
         ELSE /\ log' = Append(log, Ev("print_no_dump", 0))
              /\ localFs' = Cleanup(localFs, temp_dir)
              /\ End("False")
              /\ UNCHANGED db_file
    /\ UNCHANGED <<initial, origin, args, keyFile, archive, temp_dir, remoteFs, remoteDb,
                   db_credentials, drop_tables_result, cat_process, ssh_process, pipe>>

\* variant: the exit status of the enumeration is not looked at
RunsDropIgnoringStatus(rc, stdout) == stdout # <<>>

\* whether the drop command is run: returncode == 0 and stdout (line 261)
RunsDrop(rc, stdout) == rc = 0 /\ stdout # <<>>

\* lines 250-262: the remote table enumeration, check=False.  The exit status
\* is that of the remote pipeline; mysql failing inside it leaves the output
\* empty.
RestoreEnumerate ==
    /\ pc = "r_enum"
    /\ \E rc \in {0, 1}, listed \in BOOLEAN :
         LET stdout == IF listed THEN DropStatements(remoteDb) ELSE <<>>
         IN /\ log' = Append(log, DbEv("show_tables", rc, db_credentials))
            /\ drop_tables_result' = [returncode |-> rc, stdout |-> stdout]
            /\ pc' = IF RunsDrop(rc, stdout) THEN "r_drop" ELSE "r_popen_cat"
    /\ UNCHANGED <<initial, origin, args, keyFile, archive, localFs, temp_dir, remoteFs,
                   remoteDb, db_credentials, db_file, cat_process,
                   ssh_process, pipe, outcome, exitCode>>

\* lines 263-270: the enumerated statements run as one command, check=True
RestoreDrop ==
    /\ pc = "r_drop"
    /\ \E rc \in {0, 1}, drop_sql \in {drop_tables_result.stdout} :
         /\ log' = Append(log, DbEv("drop_tables", rc, db_credentials))
         /\ IF Raises(DropCheck, rc)
            THEN /\ localFs' = Cleanup(localFs, temp_dir)
                 /\ End("exception")
                 /\ UNCHANGED remoteDb
            ELSE /\ remoteDb' = IF rc = 0 THEN AfterDrop(remoteDb, drop_sql)
                                ELSE remoteDb
                 /\ pc' = "r_popen_cat"
                 /\ UNCHANGED <<localFs, outcome, exitCode>>
    /\ UNCHANGED <<initial, origin, args, keyFile, archive, temp_dir, remoteFs, db_credentials,
                   db_file, drop_tables_result, cat_process, ssh_process, pipe>>

\* line 282: cat db_file is started, its stdout a new pipe whose read end the
\* parent holds
RestorePopenCat ==
    /\ pc = "r_popen_cat"
    /\ cat_process' = [state |-> "running", rc |-> NoExit, left |-> DumpChunks,
                       got |-> 0, src |-> localFs.files[db_file]]
    /\ pipe' = [data |-> 0, parentRead |-> TRUE, childRead |-> FALSE,
                writeOpen |-> TRUE]
    /\ log' = Append(log, Ev("popen_cat", 0))
    /\ pc' = "r_popen_ssh"
    /\ UNCHANGED <<initial, origin, args, keyFile, archive, localFs, temp_dir, remoteFs,
                   remoteDb, db_credentials, db_file, drop_tables_result, ssh_process,
                   outcome, exitCode>>

\* line 283: ssh ... mysql is started, its stdin the read end of the pipe
RestorePopenSsh ==
    /\ pc = "r_popen_ssh"
    /\ ssh_process' = [state |-> "running", rc |-> NoExit, left |-> 0,
                       got |-> 0, src |-> <<>>]
    /\ pipe' = [pipe EXCEPT !.childRead = TRUE]
    /\ log' = Append(log, DbEv("popen_ssh_mysql", 0, db_credentials))
    /\ pc' = "r_close"
    /\ UNCHANGED <<initial, origin, args, keyFile, archive, localFs, temp_dir, remoteFs,
                   remoteDb, db_credentials, db_file, drop_tables_result, cat_process,
                   outcome, exitCode>>

\* variant: the parent keeps its read end of the pipe
ParentReadKept == TRUE

\* whether the parent still holds its read end after line 284,
\* cat_process.stdout.close()
ParentReadAfterClose == FALSE

\* line 284: the parent closes its read end
RestoreCloseStdout ==
    /\ pc = "r_close"
    /\ pipe' = [pipe EXCEPT !.parentRead = ParentReadAfterClose]
    /\ pc' = "r_communicate"
    /\ UNCHANGED <<initial, origin, args, keyFile, archive, localFs, temp_dir, remoteFs,
                   remoteDb, db_credentials, db_file, drop_tables_result, cat_process,
                   ssh_process, outcome, exitCode, log>>

\* what restore_site returns once communicate() is back (lines 285-288): no
\* return code is looked at
ImportResult(cat_rc, ssh_rc) == "True"

\* lines 285-288: communicate() returns once the remote-session process has
\* ended; the temporary directory is removed, completion printed
RestoreCommunicate ==
    /\ pc = "r_communicate"
    /\ ssh_process.state = "exited"
    /\ LET result == ImportResult(cat_process.rc, ssh_process.rc)
       IN /\ log' = IF result = "True"
                    THEN Append(log, Ev("print_restoration_complete", 0))
                    ELSE log
          /\ End(result)
    /\ localFs' = Cleanup(localFs, temp_dir)
    /\ UNCHANGED <<initial, origin, args, keyFile, archive, temp_dir, remoteFs, remoteDb,
                   db_credentials, db_file, drop_tables_result, cat_process,
                   ssh_process, pipe>>

---------------------------------------------------------------------------
(* The two processes of the import pipe *)

\* cat writes the next chunk of the dump into the pipe
CatWrite ==
    /\ cat_process.state = "running"
    /\ cat_process.left > 0
    /\ pipe.parentRead \/ pipe.childRead
    /\ pipe.data < PipeCap
    /\ cat_process' = [cat_process EXCEPT !.left = @ - 1]
    /\ pipe' = [pipe EXCEPT !.data = @ + 1]
    /\ UNCHANGED <<initial, origin, args, keyFile, archive, localFs, temp_dir, remoteFs,
                   remoteDb, db_credentials, db_file, drop_tables_result, ssh_process,
                   pc, outcome, exitCode, log>>

\* cat writes when no read end is open any more: SIGPIPE
CatBrokenPipe ==
    /\ cat_process.state = "running"
    /\ cat_process.left > 0
    /\ ~pipe.parentRead /\ ~pipe.childRead
    /\ cat_process' = [cat_process EXCEPT !.state = "exited", !.rc = SigPipe]
    /\ pipe' = [pipe EXCEPT !.writeOpen = FALSE]
    /\ UNCHANGED <<initial, origin, args, keyFile, archive, localFs, temp_dir, remoteFs,
                   remoteDb, db_credentials, db_file, drop_tables_result, ssh_process,
                   pc, outcome, exitCode, log>>

\* cat has written everything and exits with 0
CatExit ==
    /\ cat_process.state = "running"
    /\ cat_process.left = 0
    /\ cat_process' = [cat_process EXCEPT !.state = "exited", !.rc = 0]
    /\ pipe' = [pipe EXCEPT !.writeOpen = FALSE]
    /\ UNCHANGED <<initial, origin, args, keyFile, archive, localFs, temp_dir, remoteFs,
                   remoteDb, db_credentials, db_file, drop_tables_result, ssh_process,
                   pc, outcome, exitCode, log>>

\* cat cannot read the file and exits with 1
CatFail ==
    /\ cat_process.state = "running"
    /\ cat_process.left = DumpChunks
    /\ cat_process' = [cat_process EXCEPT !.state = "exited", !.rc = 1]
    /\ pipe' = [pipe EXCEPT !.writeOpen = FALSE]
    /\ UNCHANGED <<initial, origin, args, keyFile, archive, localFs, temp_dir, remoteFs,
                   remoteDb, db_credentials, db_file, drop_tables_result, ssh_process,
                   pc, outcome, exitCode, log>>

\* the remote session reads a chunk from its stdin
SshRead ==
    /\ ssh_process.state = "running"
    /\ pipe.data > 0
    /\ ssh_process' = [ssh_process EXCEPT !.got = @ + 1]
    /\ pipe' = [pipe EXCEPT !.data = @ - 1]
    /\ UNCHANGED <<initial, origin, args, keyFile, archive, localFs, temp_dir, remoteFs,
                   remoteDb, db_credentials, db_file, drop_tables_result, cat_process,
                   pc, outcome, exitCode, log>>

\* the remote session reaches end of input; mysql has run what it was fed
\* and the session exits with 0
SshFinish ==
    /\ ssh_process.state = "running"
    /\ pipe.data = 0
    /\ ~pipe.writeOpen
    /\ ssh_process' = [ssh_process EXCEPT !.state = "exited", !.rc = 0]
    /\ pipe' = [pipe EXCEPT !.childRead = FALSE]
    /\ remoteDb' = IF ssh_process.got = DumpChunks
                   THEN AfterImport(remoteDb, cat_process.src)
                   ELSE remoteDb
    /\ UNCHANGED <<initial, origin, args, keyFile, archive, localFs, temp_dir, remoteFs,
                   db_credentials, db_file, drop_tables_result, cat_process, pc,
                   outcome, exitCode, log>>

\* the remote session ends early with a nonzero status: the connection or
\* mysql failed
SshFail ==
    /\ ssh_process.state = "running"
    /\ ssh_process' = [ssh_process EXCEPT !.state = "exited", !.rc = 1]
    /\ pipe' = [pipe EXCEPT !.childRead = FALSE]
    /\ UNCHANGED <<initial, origin, args, keyFile, archive, localFs, temp_dir, remoteFs,
                   remoteDb, db_credentials, db_file, drop_tables_result, cat_process,
                   pc, outcome, exitCode, log>>

---------------------------------------------------------------------------

Next ==
    \/ KeyCheck
    \/ BackupCredentials
    \/ BackupMkTemp
    \/ BackupDump
    \/ BackupSync
    \/ BackupPack
    \/ RestoreExists
    \/ RestoreExtract
    \/ RestoreCredentials
    \/ RestoreSync
    \/ RestoreLocate
    \/ RestoreEnumerate
    \/ RestoreDrop
    \/ RestorePopenCat
    \/ RestorePopenSsh
    \/ RestoreCloseStdout
    \/ RestoreCommunicate
    \/ CatWrite
    \/ CatBrokenPipe
    \/ CatExit
    \/ CatFail
    \/ SshRead
    \/ SshFinish
    \/ SshFail

Spec == Init /\ [][Next]_vars

---------------------------------------------------------------------------
(* Packing and extracting on generated working areas: a backup that has    *)
(* reached the packing step with some set of files in its working area,    *)
(* followed by a restore run on the archive it wrote.                      *)

Names == {"a", "b"}

\* the paths below files/ of at most MaxDepth components
GeneratedPaths == UNION { [1..n -> Names] : n \in 1..MaxDepth }

\* sets of at most MaxFiles paths that can all be regular files at once
GeneratedFileSets ==
    { S \in SUBSET GeneratedPaths :
        /\ Cardinality(S) <= MaxFiles
        /\ \A p, q \in S : p # q => ~IsPrefix(p, q) }

Contents == { Text("x"), Text("y") }

\* what else varies in a generated area: the output of mysqldump (empty for
\* a database without tables) and the empty directories of the site
AreaVariants ==
    { [dump |-> WpDump, emptyDirs |-> {}],
      [dump |-> DumpOf(<<>>), emptyDirs |-> {<<"cache">>}] }

\* the working area holding the files f below files/ and one dump
GeneratedArea(f, db_name, v) ==
    MkTree([ p \in { Join(<<"files">>, q) : q \in DOMAIN f }
                 \cup { <<"database", db_name \o ".sql">> } |->
               IF p[1] = "files" THEN f[RelPath(p, <<"files">>)] ELSE v.dump ],
           { <<"files">>, <<"database">> }
             \cup { Join(<<"files">>, d) : d \in v.emptyDirs })

InitArchive ==
    /\ args = [action |-> "backup", db_credentials_override |-> FALSE,
               supplied |-> Unset]
    /\ keyFile = [exists |-> TRUE, perms |-> WantPerms]
    /\ archive = NoArchive
    /\ \E name \in TempNames, S \in GeneratedFileSets, db_name \in {"wp", "site"},
          v \in AreaVariants :
         \E f \in [S -> Contents] :
           /\ temp_dir = <<"tmp", name>>
           /\ localFs = PlaceTree([dirs |-> {<<"tmp">>}, files |-> <<>>],
                                  temp_dir, GeneratedArea(f, db_name, v))
           /\ remoteFs = MkTree(f, v.emptyDirs)
           /\ db_credentials = [InitialCredentials EXCEPT
                                  !.db_name = db_name, !.db_user = "admin",
                                  !.db_password = "secret"]
    /\ remoteDb = <<"wp_posts", "wp_options">>
    /\ db_file = NoPath
    /\ drop_tables_result = NoResult
    /\ cat_process = NoProcess
    /\ ssh_process = NoProcess
    /\ pipe = NoPipe
    /\ pc = "b_zip"
    /\ outcome = "none"
    /\ exitCode = NoExit
    /\ origin = NoOrigin
    /\ initial = [remoteFs |-> remoteFs, remoteDb |-> remoteDb,
                  keyFile |-> keyFile]
    /\ log = <<>>

\* main(), lines 291-321: the tool is run again, to restore from the archive
\* the backup has just written
StartRestore ==
    /\ pc = "done"
    /\ args.action = "backup"
    /\ outcome = "True"
    /\ args' = [args EXCEPT !.action = "restore"]
    /\ pc' = "main"
    /\ temp_dir' = NoPath
    /\ db_credentials' = Unset
    /\ outcome' = "none"
    /\ exitCode' = NoExit
    /\ log' = <<>>
    /\ UNCHANGED <<initial, origin, keyFile, archive, localFs, remoteFs,
                   remoteDb, db_file, drop_tables_result, cat_process, ssh_process, pipe>>

NextArchive ==
    \/ BackupPack
    \/ StartRestore
    \/ KeyCheck
    \/ RestoreExists
    \/ RestoreExtract

SpecArchive == InitArchive /\ [][NextArchive]_vars

---------------------------------------------------------------------------
(* The two parsers on generated configuration files: the same content is   *)
(* the server's wp-config.php and files/wp-config.php of the working area, *)
(* and each parser is applied to it once.                                  *)

\* the value each marker is defined to in a generated file
DefinedValue ==
    [DB_NAME |-> "wp", DB_USER |-> "admin", DB_PASSWORD |-> "secret",
     DB_HOST |-> "dbhost"]

Markers == DOMAIN DefinedValue

OtherQuote(q) == IF q = "'" THEN "\"" ELSE "'"

\* how a define line is laid out: define('X', 'v');  define( 'X', 'v' );
\* (the layout of WordPress's own wp-config-sample.php)  define('X', 'v' . $s);
Layouts == {"compact", "spaced", "concat"}

\* what stands between the quotes of the value: a plain text, nothing, a text
\* holding the other quote character
ValueKinds == {"plain", "empty", "quote"}

ValueToks(kind, q, value) ==
    IF kind = "plain" THEN <<value>>
    ELSE IF kind = "empty" THEN <<>>
    ELSE <<value, OtherQuote(q), "x">>

\* a define line in the given layout, quoted with q
ConfigDefine(layout, q, marker, valueToks) ==
    <<"define(">>
      \o (IF layout = "spaced" THEN <<" ">> ELSE <<>>)
      \o <<q, marker, q, ",", " ", q>> \o valueToks \o <<q>>
      \o (IF layout = "spaced" THEN <<" ">>
          ELSE IF layout = "concat" THEN <<" ", ".", " ", "$s">>
          ELSE <<>>)
      \o <<")", ";">>

\* a configuration file: kinds[m] is "absent" or the kind of the value of m;
\* the password line is quoted with qp, the others with q
ConfigFile(layout, q, qp, kinds) ==
    LET line(m, quote) ==
            IF kinds[m] = "absent" THEN <<>>
            ELSE << ConfigDefine(layout, quote, m,
                                 ValueToks(kinds[m], quote, DefinedValue[m])) >>
    IN << <<"<?php">> >>
         \o line("DB_NAME", q) \o line("DB_USER", q)
         \o line("DB_PASSWORD", qp) \o line("DB_HOST", q)
         \o << <<"$table_prefix", " ", "=", " ", "'", "wp_", "'", ";">> >>

GeneratedConfigs ==
    { ConfigFile(layout, q, qp, kinds) :
        layout \in Layouts, q \in {"'", "\""}, qp \in {"'", "\""},
        kinds \in [Markers -> ValueKinds \cup {"absent"}] }

InitParse ==
    /\ args = [action |-> "restore", db_credentials_override |-> FALSE,
               supplied |-> Unset]
    /\ keyFile = [exists |-> TRUE, perms |-> WantPerms]
    /\ temp_dir = <<"tmp", "tmpA">>
    /\ \E c \in GeneratedConfigs :
         /\ archive = MkArchive(LocalConfig :> c, {})
         /\ remoteFs = MkTree(<<"wp-config.php">> :> c, {})
    /\ localFs = ExtractAll(MkTemp([dirs |-> {<<"tmp">>}, files |-> <<>>],
                                   temp_dir), archive, temp_dir)
    /\ remoteDb = <<>>
    /\ db_credentials = Unset
    /\ db_file = NoPath
    /\ drop_tables_result = NoResult
    /\ cat_process = NoProcess
    /\ ssh_process = NoProcess
    /\ pipe = NoPipe
    /\ pc = "parse"
    /\ outcome = "none"
    /\ exitCode = NoExit
    /\ origin = NoOrigin
    /\ initial = [remoteFs |-> remoteFs, remoteDb |-> remoteDb,
                  keyFile |-> keyFile]
    /\ log = <<>>

\* the entry of the history for a parser's result: 1 for ValueError
Parsed(op, r) == DbEv(op, IF r.ok THEN 0 ELSE 1, r.creds)

\* extract_db_credentials_from_wpconfig on the server's file (lines 20-76)
ApplyRemoteParser ==
    /\ pc = "parse"
    /\ \A i \in 1..Len(log) : log[i].op # "parse_remote"
    /\ log' = Append(log, Parsed("parse_remote",
                  extract_db_credentials_from_wpconfig(remoteFs, TRUE)))
    /\ UNCHANGED <<args, keyFile, archive, localFs, temp_dir, remoteFs,
                   remoteDb, db_credentials, db_file, drop_tables_result, cat_process,
                   ssh_process, pipe, pc, outcome, exitCode, origin, initial>>

\* extract_db_credentials_from_local_wpconfig on the working area's file
\* (lines 79-108)
ApplyLocalParser ==
    /\ pc = "parse"
    /\ \A i \in 1..Len(log) : log[i].op # "parse_local"
    /\ log' = Append(log, Parsed("parse_local",
                  LocalCredentials(localFs, temp_dir)))
    /\ UNCHANGED <<args, keyFile, archive, localFs, temp_dir, remoteFs,
                   remoteDb, db_credentials, db_file, drop_tables_result, cat_process,
                   ssh_process, pipe, pc, outcome, exitCode, origin, initial>>

NextParse ==
    \/ ApplyRemoteParser
    \/ ApplyLocalParser

SpecParse == InitParse /\ [][NextParse]_vars

---------------------------------------------------------------------------
(* The import pipe on its own: a restore of the site's backup that has     *)
(* synced the files, located database/wp.sql and found the enumeration     *)
(* failing, and is about to start the two processes.  Each of the three    *)
(* processes (python, cat, ssh) is scheduled by the operating system: one  *)
(* that can take a step eventually takes one.                              *)

InitPipe ==
    /\ args = [action |-> "restore", db_credentials_override |-> FALSE,
               supplied |-> Unset]
    /\ keyFile = [exists |-> TRUE, perms |-> WantPerms]
    /\ archive = SiteArchive
    /\ \E name \in TempNames : temp_dir = <<"tmp", name>>
    /\ localFs = ExtractAll(MkTemp([dirs |-> {<<"tmp">>}, files |-> <<>>],
                                   temp_dir), archive, temp_dir)
    /\ remoteFs = RsyncTree(SubTree(localFs, FilesDir(temp_dir)), LiveSite,
                            RestoreSyncDeletes)
    /\ remoteDb \in RemoteDbs
    /\ db_credentials = extract_db_credentials_from_wpconfig(LiveSite, TRUE).creds
    /\ db_file = Join(DbDir(temp_dir), <<"wp.sql">>)
    /\ drop_tables_result \in
         { [returncode |-> 1, stdout |-> out] :
             out \in {<<>>, DropStatements(remoteDb)} }
    /\ cat_process = NoProcess
    /\ ssh_process = NoProcess
    /\ pipe = NoPipe
    /\ pc = "r_popen_cat"
    /\ outcome = "none"
    /\ exitCode = NoExit
    /\ origin = NoOrigin
    /\ \E k \in { f \in KeyFiles : f.exists } :
         initial = [remoteFs |-> LiveSite, remoteDb |-> remoteDb,
                    keyFile |-> k]
    /\ log = << Ev("extract", 0), Ev("ssh_grep_config", 0),
                Ev(RsyncOp("push", RestoreSyncDeletes), 0),
                DbEv("show_tables", 1, db_credentials) >>

\* the steps of restore_site from the start of the import on
OrchestratorStep ==
    \/ RestorePopenCat
    \/ RestorePopenSsh
    \/ RestoreCloseStdout
    \/ RestoreCommunicate

\* the steps of cat
CatStep ==
    \/ CatWrite
    \/ CatBrokenPipe
    \/ CatExit
    \/ CatFail

\* the steps of ssh
SshStep ==
    \/ SshRead
    \/ SshFinish
    \/ SshFail

NextPipe ==
    \/ OrchestratorStep
    \/ CatStep
    \/ SshStep

SpecPipe ==
    /\ InitPipe
    /\ [][NextPipe]_vars
    /\ WF_vars(OrchestratorStep)
    /\ WF_vars(CatStep)
    /\ WF_vars(SshStep)

---------------------------------------------------------------------------
(* Properties *)

HasOp(op) == \E i \in 1..Len(log) : log[i].op = op

HasEv(e) == \E i \in 1..Len(log) : log[i] = e

SyncOps == { RsyncOp(d, x) : d \in {"pull", "push"}, x \in BOOLEAN }

DbOps == {"mysqldump", "show_tables", "drop_tables", "popen_ssh_mysql"}

ErrorMessages == {"print_key_not_found", "print_no_archive",
                  "print_no_credentials", "print_no_files_dir", "print_no_dump"}

\* a file sync or a database command has been issued
Proceeded == \E i \in 1..Len(log) : log[i].op \in SyncOps \cup DbOps

\* a process of the import pipe has ended with a nonzero status
ImportFailed ==
    \/ ssh_process.rc \notin {0, NoExit}
    \/ cat_process.rc \notin {0, NoExit}

\* C1: in restore_site's import stage, when the remote-session process (or the
\* feeding process) has exited nonzero, the restore is reported as failed: it
\* neither prints completion nor returns success.
C1_ImportFailureReported ==
    (pc = "done" /\ HasOp("popen_ssh_mysql") /\ ImportFailed)
        => /\ outcome # "True"
           /\ exitCode # 0
           /\ ~HasOp("print_restoration_complete")

\* a step of the action failed before the import: a command or an operation
\* that must succeed ended badly, or an error was reported.  The table
\* enumeration, and in restore the remote lookup of the credentials, may fail
\* without their step failing: the design tolerates the one and falls back
\* from the other.
FatalStepFailed ==
    \E i \in 1..Len(log) :
      \/ /\ log[i].rc # 0
         /\ log[i].op # "show_tables"
         /\ log[i].op = "ssh_grep_config" => args.action = "backup"
      \/ log[i].op \in ErrorMessages

\* a step of the action failed
StepFailed == FatalStepFailed \/ ImportFailed

\* C2: the exit code of main is 0 only if every step of the requested action
\* succeeded, and 1 whenever the key file is missing or a step failed, by a
\* False return or by an exception.
C2_ExitCodeTellsSuccess ==
    pc = "done"
        => /\ exitCode = 0 => (keyFile.exists /\ ~StepFailed)
           /\ (~keyFile.exists \/ StepFailed) => exitCode = 1

\* C3: in every terminal state of a run (success, a False return, an exception
\* after the temporary directory was created) the working area of the run and
\* all its contents are gone.
C3_WorkingAreaDestroyed ==
    pc = "done"
        => /\ localFs.dirs = {<<"tmp">>}
           /\ DOMAIN localFs.files = {}

\* a run that created its working area and ended by an exception
C3_Witness ==
    /\ pc = "done"
    /\ temp_dir # NoPath
    /\ outcome = "exception"
    /\ HasOp("extract")

\* C4: with --db-credentials-override, restore performs neither the remote nor
\* the local configuration lookup, and every database command carries exactly
\* the supplied name, user and password, host defaulted to "localhost".
C4_OverrideSkipsLookups ==
    (args.action = "restore" /\ args.db_credentials_override)
        => /\ ~HasOp("ssh_grep_config")
           /\ ~HasOp("read_local_config")
           /\ \A i \in 1..Len(log) :
                log[i].op \in DbOps
                    => log[i].creds = OverrideCredentials(args.supplied)

\* C5: no run issues a file sync or a database command unless all four
\* credential fields have a value, whichever way they were resolved.
C5_CredentialsComplete ==
    Proceeded => Missing(db_credentials) = {}

\* database/<db_name>.sql of the working area
ExactDump ==
    Join(DbDir(temp_dir), <<Str(db_credentials.db_name) \o ".sql">>)

\* the entries of database/ named *.sql
SqlEntries ==
    { Join(DbDir(temp_dir), <<f>>) :
        f \in { g \in ListDir(localFs, DbDir(temp_dir)) : EndsWith(g, ".sql") } }

\* the lookup failed: the run is over, nothing was cleared or imported
LookupFails ==
    /\ pc' = "done"
    /\ outcome' = "False"
    /\ remoteDb' = remoteDb
    /\ \A i \in 1..Len(log') :
         log'[i].op \notin {"show_tables", "drop_tables", "popen_cat",
                            "popen_ssh_mysql"}

\* C6, as claimed: the lookup selects <db_name>.sql when it exists, else the
\* only other .sql file, and with no or several other .sql files the restore
\* fails without clearing tables or importing.
C6_LookupAsClaimed ==
    [][pc = "r_locate"
         => IF Exists(localFs, ExactDump)
            THEN pc' = "r_enum" /\ db_file' = ExactDump
            ELSE IF Cardinality(SqlEntries) = 1
            THEN pc' = "r_enum" /\ db_file' \in SqlEntries
            ELSE LookupFails]_vars

\* C6, amended: the lookup selects <db_name>.sql when it exists, else one of
\* the other .sql files when there is at least one, and only with no .sql
\* file at all does the restore fail without clearing tables or importing.
C6_LookupAmended ==
    [][pc = "r_locate"
         => IF Exists(localFs, ExactDump)
            THEN pc' = "r_enum" /\ db_file' = ExactDump
            ELSE IF SqlEntries # {}
            THEN pc' = "r_enum" /\ db_file' \in SqlEntries
            ELSE LookupFails]_vars

\* a dump was selected among several, none of them <db_name>.sql
C6_Witness ==
    /\ pc = "r_enum"
    /\ ~Exists(localFs, ExactDump)
    /\ Cardinality(SqlEntries) >= 2
    /\ db_file \in SqlEntries

\* the table enumeration ended with a nonzero status
EnumerationFailed ==
    \E i \in 1..Len(log) : log[i].op = "show_tables" /\ log[i].rc # 0

\* C7: when the table enumeration exits nonzero the restore does not abort:
\* no drop command is run and the import is started on the located dump file.
C7_EnumerationFailureTolerated ==
    EnumerationFailed
        => /\ ~HasOp("drop_tables")
           /\ remoteDb = initial.remoteDb \/ HasOp("popen_ssh_mysql")
           /\ \/ pc = "r_popen_cat" /\ Exists(localFs, db_file)
              \/ /\ HasOp("popen_cat")
                 /\ cat_process.src = archive.files[RelPath(db_file, temp_dir)]

\* the enumeration failed and both processes of the import were started
C7_Witness ==
    /\ EnumerationFailed
    /\ HasOp("popen_ssh_mysql")

\* C8: without the override flag restore tries the server first; when that
\* succeeds its result is used and the local file is not read; only when it
\* fails is files/wp-config.php of the archive parsed; and when that file is
\* absent the restore fails before any file sync or database command.
C8_FallbackChain ==
    (args.action = "restore" /\ ~args.db_credentials_override)
        => /\ \A i \in 1..Len(log) :
                log[i].op \in {"read_local_config", "print_no_credentials"}
                    => i > 1 /\ log[i - 1] = Ev("ssh_grep_config", 1)
           /\ (pc = "r_files" \/ Proceeded) => HasOp("ssh_grep_config")
           /\ pc = "r_files"
                => IF HasEv(Ev("ssh_grep_config", 0))
                   THEN /\ ~HasOp("read_local_config")
                        /\ db_credentials =
                             extract_db_credentials_from_wpconfig(remoteFs, TRUE).creds
                   ELSE /\ HasEv(Ev("read_local_config", 0))
                        /\ db_credentials =
                             extract_db_credentials_from_local_wpconfig(
                                 localFs.files[Join(temp_dir, LocalConfig)]).creds
           /\ (HasEv(Ev("ssh_grep_config", 1)) /\ LocalConfig \notin DOMAIN archive.files)
                => /\ pc = "done"
                   /\ outcome = "False"
                   /\ HasOp("print_no_credentials")
                   /\ ~Proceeded

\* the server lookup failed, the archive's configuration was parsed, and the
\* restore went on to the import
C8_Witness ==
    /\ args.action = "restore"
    /\ ~args.db_credentials_override
    /\ HasEv(Ev("ssh_grep_config", 1))
    /\ HasEv(Ev("read_local_config", 0))
    /\ HasOp("popen_ssh_mysql")

\* the files of the archive's files/ subtree, by their path below it
ArchivedFiles ==
    { RelPath(a, <<"files">>) :
        a \in { e \in DOMAIN archive.files : IsPrefix(<<"files">>, e) } }

\* C9: the backup sync never carries deletion and never changes a remote file;
\* the restore sync always carries deletion, and after it has succeeded the
\* files under the remote path are exactly those of the archive's files/.
C9_SyncAsymmetry ==
    /\ ~HasOp(RsyncOp("pull", TRUE))
    /\ ~HasOp(RsyncOp("push", FALSE))
    /\ args.action = "backup" => remoteFs = initial.remoteFs
    /\ HasEv(Ev(RsyncOp("push", TRUE), 0))
         => /\ DOMAIN remoteFs.files = ArchivedFiles
            /\ \A p \in ArchivedFiles :
                 remoteFs.files[p] = archive.files[Join(<<"files">>, p)]

\* a restore sync succeeded and removed a file the archive does not hold
C9_Witness ==
    /\ HasEv(Ev(RsyncOp("push", TRUE), 0))
    /\ \E p \in DOMAIN initial.remoteFs.files : p \notin DOMAIN remoteFs.files

\* C10: packing a working area as backup_site does and extracting the archive
\* as restore_site does gives, under the new temporary directory, the same
\* relative file paths with the same contents.
C10_ArchiveRoundTrip ==
    (pc = "r_creds" /\ origin # NoOrigin)
        => SubTree(localFs, temp_dir).files = origin.tree.files

\* an area with a nested file and a dump, extracted under another directory
C10_Witness ==
    /\ pc = "r_creds"
    /\ origin # NoOrigin
    /\ origin.td # temp_dir
    /\ \E p \in DOMAIN origin.tree.files : p[1] = "files" /\ Len(p) >= 3
    /\ \E p \in DOMAIN origin.tree.files : p[1] = "database"

\* the configuration file the parsers are applied to
ConfigContent == remoteFs.files[<<"wp-config.php">>]

\* the well-formed files: every define line present gives its value as one
\* plain string literal, in single or double quotes, in the compact layout or
\* with the blanks inside the parentheses that WordPress itself writes
WellFormedConfigs ==
    { ConfigFile(layout, q, qp, kinds) :
        layout \in {"compact", "spaced"}, q \in {"'", "\""}, qp \in {"'", "\""},
        kinds \in [Markers -> {"plain", "absent"}] }

\* the file holds a define line for the marker
Defines(m) == \E i \in 1..Len(ConfigContent) : HasTok(ConfigContent[i], m)

\* the four values the file defines, the host defaulted
DefinedCredentials ==
    [db_name |-> "wp", db_user |-> "admin", db_password |-> "secret",
     db_host |-> IF Defines("DB_HOST") THEN "dbhost" ELSE "localhost"]

\* what the claim says of the result a parser gave
AsDefined(result) ==
    IF Defines("DB_NAME") /\ Defines("DB_USER") /\ Defines("DB_PASSWORD")
    THEN result.rc = 0 /\ result.creds = DefinedCredentials
    ELSE result.rc = 1

\* C11: on every well-formed configuration file, whatever the quote style,
\* each parser returns exactly the four defined values, host "localhost" when
\* only the DB_HOST line is missing, and fails when the line for the name, the
\* user or the password is missing.
C11_ParsingExtractsFields ==
    ConfigContent \in WellFormedConfigs
        => \A i \in 1..Len(log) :
             log[i].op \in {"parse_remote", "parse_local"} => AsDefined(log[i])

\* the operations that reach the server: remote commands, file syncs, the
\* dump and the import
RemoteOps == SyncOps \cup DbOps \cup {"ssh_grep_config"}

RemoteOpStarted == \E i \in 1..Len(log) : log[i].op \in RemoteOps

\* C12: no remote operation is started before the key file has been found to
\* exist with its permission bits at 0600; when the key file does not exist
\* the run ends with exit code 1, having started no remote operation and
\* created no working area.
C12_KeyCheckedFirst ==
    /\ RemoteOpStarted
         => /\ pc # "main"
            /\ keyFile.exists
            /\ keyFile.perms = WantPerms
    /\ ~keyFile.exists
         => /\ ~RemoteOpStarted
            /\ temp_dir = NoPath
            /\ localFs.dirs = {<<"tmp">>}
            /\ pc = "done" => exitCode = 1
            /\ pc \in {"main", "done"}

\* a remote operation of a run that found the key file with other permissions
C12_Witness ==
    /\ RemoteOpStarted
    /\ initial.keyFile.exists
    /\ initial.keyFile.perms # WantPerms

\* the operations and messages of a restore, in the order of its steps:
\* archive existence, extraction, credentials, files/ check and sync, dump
\* lookup, table clearing, import, report
RestoreOrder ==
    << "print_no_archive", "extract", "ssh_grep_config", "read_local_config",
       "print_no_credentials", "print_no_files_dir", RsyncOp("push", TRUE),
       "print_no_dump", "show_tables", "drop_tables", "popen_cat",
       "popen_ssh_mysql", "print_restoration_complete" >>

\* the place of an operation in an order, 0 when it is not in it
Rank(order, op) ==
    IF \E k \in 1..Len(order) : order[k] = op
    THEN CHOOSE k \in 1..Len(order) : order[k] = op
    ELSE 0

\* the history follows the order: no operation outside it, none twice, none
\* before an earlier one
FollowsOrder(order) ==
    /\ \A i \in 1..Len(log) : Rank(order, log[i].op) > 0
    /\ \A i \in 1..(Len(log) - 1) :
         Rank(order, log[i].op) < Rank(order, log[i + 1].op)

\* the archive holds a files/ subtree
FilesPresent ==
    \E e \in DOMAIN archive.files \cup archive.dirs : IsPrefix(<<"files">>, e)

SyncSucceeded == HasEv(Ev(RsyncOp("push", TRUE), 0))

\* C13: a restore (restore_site is called once the key file was found) runs
\* its steps in the fixed order, each after the previous one completed: no
\* table is dropped and no import started unless the file sync succeeded and
\* a dump file was located, and no remote file is changed unless the archive
\* existed, was extracted, credentials were resolved and files/ was present.
C13_RestoreOrder ==
    (args.action = "restore" /\ keyFile.exists)
        => /\ FollowsOrder(RestoreOrder)
           /\ HasOp("extract") => archive.exists
           /\ HasOp("ssh_grep_config") => HasEv(Ev("extract", 0))
           /\ HasOp(RsyncOp("push", TRUE))
                => /\ HasOp("ssh_grep_config")
                   /\ db_credentials # Unset
                   /\ FilesPresent
           /\ (HasOp("show_tables") \/ HasOp("drop_tables") \/ HasOp("popen_cat")
                 \/ remoteDb # initial.remoteDb)
                => /\ SyncSucceeded
                   /\ db_file # NoPath
                   /\ RelPath(db_file, temp_dir) \in DOMAIN archive.files
           /\ (HasOp("drop_tables") \/ HasOp("popen_cat")) => HasOp("show_tables")
           /\ HasOp("popen_ssh_mysql") => HasOp("popen_cat")
           /\ HasOp("print_restoration_complete")
                => /\ HasOp("popen_ssh_mysql")
                   /\ ssh_process.state = "exited"
                   /\ pc = "done"
           /\ remoteFs # initial.remoteFs
                => /\ archive.exists
                   /\ HasEv(Ev("extract", 0))
                   /\ db_credentials # Unset
                   /\ FilesPresent
                   /\ SyncSucceeded

\* a restore that went through every step, tables dropped, files replaced
C13_Witness ==
    /\ args.action = "restore"
    /\ HasOp("print_restoration_complete")
    /\ HasEv(DbEv("drop_tables", 0, db_credentials))
    /\ remoteFs # initial.remoteFs
    /\ remoteDb # initial.remoteDb

\* the operations of a backup, in the order of its steps
BackupOrder ==
    << "ssh_grep_config", "mysqldump", RsyncOp("pull", FALSE), "zip_write",
       "print_backup_complete" >>

\* database/<db_name>.sql, relative to the working area
DumpEntry == <<"database", Str(db_credentials.db_name) \o ".sql">>

\* C14: a backup (backup_site is called once the key file was found) runs its
\* steps in the fixed order (credentials from the server, dump into
\* database/<db_name>.sql, sync into files/, pack, report), each only after
\* the previous one succeeded, and reports success only after the archive was
\* written, holding the dump and the synced files.
C14_BackupOrder ==
    (args.action = "backup" /\ keyFile.exists)
        => /\ FollowsOrder(BackupOrder)
           /\ \A i \in 1..(Len(log) - 1) : log[i].rc = 0
           /\ pc \in {"b_mktemp", "b_dump", "b_rsync", "b_zip"}
                => db_credentials =
                     extract_db_credentials_from_wpconfig(remoteFs, TRUE).creds
           /\ pc \in {"b_rsync", "b_zip"}
                => /\ Join(temp_dir, DumpEntry) \in DOMAIN localFs.files
                   /\ localFs.files[Join(temp_dir, DumpEntry)] = DumpOf(remoteDb)
           /\ pc = "b_zip"
                => SubTree(localFs, FilesDir(temp_dir)).files = remoteFs.files
           /\ HasOp("print_backup_complete")
                => /\ pc = "done"
                   /\ outcome = "True"
                   /\ HasEv(Ev("zip_write", 0))
                   /\ archive.exists /\ archive.valid
                   /\ DOMAIN archive.files =
                        {DumpEntry} \cup { Join(<<"files">>, f) :
                                             f \in DOMAIN remoteFs.files }
                   /\ archive.files[DumpEntry] = DumpOf(remoteDb)
                   /\ \A f \in DOMAIN remoteFs.files :
                        archive.files[Join(<<"files">>, f)] = remoteFs.files[f]
           /\ (pc = "done" /\ outcome = "True")
                => HasOp("print_backup_complete")

\* a finished backup of a site with a nested file and a database with tables
C14_Witness ==
    /\ args.action = "backup"
    /\ HasOp("print_backup_complete")
    /\ remoteDb # <<>>
    /\ \E a \in DOMAIN archive.files : Len(a) >= 3 /\ a[1] = "files"

\* the i-th entry of the history is the failure of a step other than the
\* table enumeration: a command or an operation that ended badly, or an error
\* message.  In a restore the remote lookup of the credentials is one half of
\* the resolution step, which fails when the fallback fails too.
FailedAt(i) ==
    \/ /\ log[i].rc # 0
       /\ log[i].op # "show_tables"
       /\ log[i].op = "ssh_grep_config" => args.action = "backup"
    \/ log[i].op \in ErrorMessages

\* no operation appears twice in the history
NothingRetried ==
    \A i, j \in 1..Len(log) : log[i].op = log[j].op => i = j

\* a failure before the import ends the run, in failure, with nothing after it
FailureBeforeImportAborts ==
    \A i \in 1..Len(log) :
       FailedAt(i) => /\ i = Len(log)
                      /\ pc = "done"
                      /\ outcome # "True"
                      /\ exitCode = 1

\* a failure of the import ends the run in failure, success is not reported
ImportFailureAborts ==
    ImportFailed => /\ ~HasOp("print_restoration_complete")
                    /\ pc = "done" => (outcome # "True" /\ exitCode = 1)

\* C15: every step is executed at most once, and the failure of any step but
\* the table enumeration (credential resolution, dump, file sync, packaging,
\* extraction, table drop, import) ends the run in failure with no later step
\* executed.
C15_OnlyEnumerationTolerated ==
    /\ NothingRetried
    /\ FailureBeforeImportAborts
    /\ ImportFailureAborts

\* the enumeration has run, exited zero and produced output
EnumerationListed ==
    /\ HasOp("show_tables")
    /\ drop_tables_result.returncode = 0
    /\ drop_tables_result.stdout # <<>>

DropFailed == \E i \in 1..Len(log) : log[i].op = "drop_tables" /\ log[i].rc # 0

\* C16: in a restore the drop command is run if and only if the enumeration
\* exited zero with non-empty output; it is run at most once, as one command
\* carrying exactly the enumerated DROP TABLE IF EXISTS statements; and when
\* it exits nonzero the restore fails without starting the import.
C16_DropIffEnumerated ==
    /\ HasOp("drop_tables") => EnumerationListed
    /\ EnumerationListed => (pc = "r_drop" \/ HasOp("drop_tables"))
    /\ pc = "r_drop" => (EnumerationListed /\ ~HasOp("drop_tables"))
    /\ Cardinality({ i \in 1..Len(log) : log[i].op = "drop_tables" }) <= 1
    /\ EnumerationListed
         => drop_tables_result.stdout = DropStatements(initial.remoteDb)
    /\ (HasEv(DbEv("drop_tables", 0, db_credentials)) /\ ~HasOp("popen_ssh_mysql"))
         => remoteDb = AfterDrop(initial.remoteDb,
                                 DropStatements(initial.remoteDb))
    /\ DropFailed
         => /\ pc = "done"
            /\ outcome # "True"
            /\ exitCode = 1
            /\ ~HasOp("popen_cat")
            /\ ~HasOp("popen_ssh_mysql")
            /\ remoteDb = initial.remoteDb

\* the drop command was run and exited nonzero
C16_Witness ==
    /\ DropFailed
    /\ EnumerationListed
    /\ pc = "done"

\* restore_site is past the import: completion is reported, the working area
\* gone, the run over
PastImport ==
    \/ pc = "done"
    \/ HasOp("print_restoration_complete")
    \/ (HasOp("popen_cat") /\ ~Exists(localFs, temp_dir))

\* the remote-session process has been waited for
SessionAwaited == PastImport => ssh_process.state # "running"

\* the feeding process has been waited for
FeederAwaited == PastImport => cat_process.state # "running"

\* C17: restore_site neither reports completion nor destroys the working area
\* (which holds the dump being read) before both the feeding process and the
\* remote-session process have terminated: the run is never over while one of
\* them is still running.
C17_BothProcessesAwaited ==
    /\ SessionAwaited
    /\ FeederAwaited

\* the remote session has ended before it consumed the whole dump
SessionEndedEarly ==
    /\ ssh_process.state = "exited"
    /\ ssh_process.got < DumpChunks

\* the parent closes its read end after ssh is started and before it waits
ClosedInOrder ==
    /\ pc = "r_popen_ssh" => pipe.parentRead
    /\ pc = "r_close" => (pipe.parentRead /\ HasOp("popen_ssh_mysql"))
    /\ (pc \in {"r_communicate", "done"} /\ HasOp("popen_cat"))
         => ~pipe.parentRead

\* a feeder that ends with part of the dump unwritten has not run to
\* completion: it ended on a broken pipe, or could not read the file at all
NotRunToCompletion ==
    (cat_process.state = "exited" /\ cat_process.left > 0)
        => \/ cat_process.rc = SigPipe /\ ssh_process.state = "exited"
           \/ cat_process.rc = 1 /\ cat_process.left = DumpChunks

\* C18: the orchestrating process closes its handle on the feeder's output
\* after the remote-session process is started and before it waits; so when
\* the remote session ends before consuming all input, the feeder eventually
\* terminates (on a broken pipe when it still has to write) and the
\* orchestrator's wait eventually returns.
C18_BrokenPipeEndsFeeder ==
    /\ [](ClosedInOrder /\ NotRunToCompletion)
    /\ SessionEndedEarly ~> (cat_process.state = "exited" /\ pc = "done")

\* the session ended early, the feeder got the broken pipe, the wait returned
C18_Witness ==
    /\ SessionEndedEarly
    /\ cat_process.state = "exited"
    /\ cat_process.rc = SigPipe
    /\ pc = "done"

\* two parser results are the same: both failed, or both gave the same values
SameResult(a, b) ==
    /\ a.rc = b.rc
    /\ a.rc = 0 => a.creds = b.creds

\* C19: the remote-output parser and the local-file parser are the same
\* function of the configuration content: on every file, also with blanks or
\* other text between the value's closing quote and the closing parenthesis
\* and with values holding the other quote character, both return the same
\* four values or both fail.
C19_ParsersAgree ==
    \A i, j \in 1..Len(log) :
       (log[i].op = "parse_remote" /\ log[j].op = "parse_local")
           => SameResult(log[i], log[j])

\* the names the restore may have resolved for the database
LookupNames == {"wp", "site", "other"}

\* line 217: os.path.exists(files_dir) on the extracted archive
FilesCheckPasses == Exists(localFs, FilesDir(temp_dir))

\* lines 232-248: whatever the database name, the lookup selects a file of
\* database/ that exists and is named *.sql
LookupSelectsDump ==
    \A n \in LookupNames :
       \A file \in DumpCandidates(localFs, temp_dir, n) :
          /\ Exists(localFs, file)
          /\ IsPrefix(DbDir(temp_dir), file)
          /\ EndsWith(file[Len(file)], ".sql")

\* the archive a successful backup wrote has been extracted by a restore
BackupExtracted == pc = "r_creds" /\ origin # NoOrigin

\* the working area the archive was packed from held a regular file in files/
OriginHadFile == \E p \in DOMAIN origin.tree.files : p[1] = "files"

=============================================================================
